---------------------------- MODULE Spec2Model ----------------------------
(***************************************************************************)
(* RustaceanMarket: the cart-to-order checkout engine.                     *)
(*                                                                         *)
(* The committed database tables are the variables carts, cart_items,      *)
(* products, orders and order_details.  Every request is handled by an     *)
(* independently scheduled worker (a slot of Procs); every SQL statement   *)
(* the handler awaits is one atomic step.  Statements issued on the pool   *)
(* (`&state.db`) autocommit; the statements of Order::create_order are     *)
(* issued on a transaction handle (`&mut *tx`): their writes are buffered  *)
(* in tx[p] and reach the tables at tx.commit(), or are discarded when the *)
(* handle is dropped on an early return.  The transaction runs at the      *)
(* storage engine's default isolation (read committed): each statement     *)
(* reads the rows committed when it runs, plus a row lock taken by DELETE  *)
(* that makes a concurrent UPDATE or DELETE of the same row wait.          *)
(***************************************************************************)
EXTENDS Integers, Sequences, FiniteSets, TLC

(***************************************************************************)
(* Bounds of the model.                                                    *)
(***************************************************************************)
NumProcs == 2        \* requests in flight at the same time
MaxRequests == 2     \* requests begun in one behaviour with overlapping requests
MaxSeqRequests == 2  \* requests begun in one behaviour of one request at a time
MaxFailures == 1     \* storage errors injected in one behaviour

Procs == 1..NumProcs

(***************************************************************************)
(* Inputs of the requests.                                                 *)
(***************************************************************************)
Customer == "alice"
Admin == "root"
Users == {Customer, Admin}
Products == {"x", "y"}
Prices == {2, 3}                  \* fixed-point amounts, in minor units
Quantities == {1, 2}
I32Max == 2147483647              \* the largest value of CartItemBody.quantity: i32
AnyQuantities == {-1, 0, 1, I32Max}
Addresses == {"addr", "other"}
StatusInputs == {"Pending", "Confirmed", "Shipped", "shipped"}

NoCart == 0
NoRow == [cart_item_id |-> 0, cart_id |-> 0, product_id |-> "", quantity |-> 0]
NoOrder == [order_id |-> 0, user_id |-> "", status |-> "", shipping_address |-> "",
            total_amount |-> 0, created_at |-> 0]

VARIABLES
    carts,          \* table carts: rows [cart_id, user_id]
    cart_items,     \* table cart_items: rows [cart_item_id, cart_id, product_id, quantity]
    products,       \* table products: product_id -> [price, stock_quantity]
    orders,         \* table orders
    order_details,  \* table order_details
    nextId,         \* the next generated row id (uuid default of the tables)
    pc,             \* pc[p]: the statement worker p is about to run
    req,            \* req[p]: the request p handles
    loc,            \* loc[p]: the handler's local variables
    tx,             \* tx[p]: the uncommitted writes of p's transaction
    resp,           \* resp[p]: the HTTP response of the finished request
    budget,         \* requests that may still begin
    failures,       \* storage errors injected so far
    cleared,        \* cleared[u]: u's last checkout succeeded and no add_cart_item
                    \* request of u has been in flight since it committed
    clock           \* the storage engine's clock: the start time of the next
                    \* transaction

tables == <<carts, cart_items, products, orders, order_details>>
vars == <<carts, cart_items, products, orders, order_details, nextId,
          pc, req, loc, tx, resp, budget, failures, cleared, clock>>

(***************************************************************************)
(* Pure helpers.                                                           *)
(***************************************************************************)
RECURSIVE SumOver(_, _)
\* The sum of f[r] over the rows r of a finite set.
SumOver(S, f) ==
    IF S = {} THEN 0
    ELSE LET r == CHOOSE x \in S : TRUE
         IN  f[r] + SumOver(S \ {r}, f)

\* The line total with the quantity left out.
LineTotal_NoQuantity(item) == item.price

\* item.price * Decimal::from(item.quantity)
LineTotal(item) == item.price * item.quantity

\* cart_items.iter().map(|item| item.price * Decimal::from(item.quantity)).sum()
TotalAmount(items) == SumOver(items, [i \in items |-> LineTotal(i)])

\* The status names matched whatever their case.
ParseStatus_AnyCase(s) ==
    CASE s \in {"Pending", "pending"} -> "pending"
      [] s \in {"Confirmed", "confirmed"} -> "confirmed"
      [] s \in {"Shipped", "shipped"} -> "shipped"
      [] OTHER -> "pending"

\* match order_status.as_str() { ... _ => OrderStatus::Pending }
ParseStatus(s) ==
    CASE s = "Pending" -> "pending"
      [] s = "Confirmed" -> "confirmed"
      [] s = "Shipped" -> "shipped"
      [] OTHER -> "pending"

I32Min == -I32Max - 1

\* The sum of the i32 values a and b does not fit an i32.
AddOverflows(a, b) ==
    \/ b > 0 /\ a > I32Max - b
    \/ b < 0 /\ a < I32Min - b

\* a + b as two's-complement arithmetic keeps it: the sum less 2^32 when it
\* exceeds I32Max, the sum plus 2^32 when it is below I32Min.
WrappingAdd(a, b) ==
    IF b > 0 /\ a > I32Max - b THEN ((a - I32Max) + (b - I32Max)) - 2
    ELSE IF b < 0 /\ a < I32Min - b THEN ((a + I32Max) + (b + I32Max)) + 2
    ELSE a + b

\* Every caller taken for an admin.
IsAdmin_Anyone(u) == TRUE

\* TokenClaims::is_admin
IsAdmin(u) == u = Admin

NoReq == [kind |-> "none", user |-> "", product |-> "", quantity |-> 0,
          price |-> 0, stock |-> 0, order_id |-> 0, status |-> "", address |-> ""]
NoLoc == [cart |-> NoCart, item |-> NoRow, items |-> {}, total |-> 0,
          order |-> NoOrder, todo |-> {}, err |-> "", result |-> <<>>]
NoTx == [active |-> FALSE, started |-> 0, orders |-> {}, details |-> {}, deleted |-> {}]

\* The rows DELETE statements of other open transactions hold locked.
LockedByOthers(p) ==
    UNION {{r.cart_item_id : r \in tx[q].deleted} :
               q \in {q \in Procs \ {p} : tx[q].active}}

\* SELECT * FROM carts WHERE user_id = $1
CartsOf(u) == {c \in carts : c.user_id = u}

\* SELECT * FROM cart_items WHERE cart_id = $1
ItemsOf(cid) == {i \in cart_items : i.cart_id = cid}

\* SELECT ci.*, p.price FROM cart_items ci JOIN products p ON ... WHERE cart_id = $1
JoinedItems(cid) ==
    {[cart_item_id |-> i.cart_item_id, product_id |-> i.product_id,
      quantity |-> i.quantity, price |-> products[i.product_id].price] :
        i \in ItemsOf(cid)}

(***************************************************************************)
(* The database the server connects to.  Each is a state the program       *)
(* reaches from the empty database:                                        *)
(*   - the empty database;                                                 *)
(*   - alice added x (1);                                                  *)
(*   - alice added x (1), then y (2);                                      *)
(*   - alice's first two adds, of x and of y, overlapped: both found no    *)
(*     cart, both inserted one, and each added its item to its own cart;   *)
(*   - alice added x (2) and checked out at the price 2;                   *)
(*   - alice did so, and then root added y (1) and checked out at the      *)
(*     price 3.                                                            *)
(***************************************************************************)
Cart1 == [cart_id |-> 1, user_id |-> Customer]
Cart2 == [cart_id |-> 2, user_id |-> Customer]

Item(id, cid, x, q) ==
    [cart_item_id |-> id, cart_id |-> cid, product_id |-> x, quantity |-> q]

Order3 == [order_id |-> 3, user_id |-> Customer, status |-> "pending",
           shipping_address |-> "addr", total_amount |-> 4, created_at |-> 1]
Order6 == [order_id |-> 6, user_id |-> Admin, status |-> "pending",
           shipping_address |-> "addr", total_amount |-> 3, created_at |-> 2]

Databases ==
    { [carts |-> {}, cart_items |-> {}, orders |-> {}, order_details |-> {},
       nextId |-> 1, clock |-> 1],
      [carts |-> {Cart1}, cart_items |-> {Item(2, 1, "x", 1)},
       orders |-> {}, order_details |-> {}, nextId |-> 3, clock |-> 1],
      [carts |-> {Cart1}, cart_items |-> {Item(2, 1, "x", 1), Item(3, 1, "y", 2)},
       orders |-> {}, order_details |-> {}, nextId |-> 4, clock |-> 1],
      [carts |-> {Cart1, Cart2},
       cart_items |-> {Item(3, 1, "x", 1), Item(4, 2, "y", 1)},
       orders |-> {}, order_details |-> {}, nextId |-> 5, clock |-> 1],
      [carts |-> {Cart1}, cart_items |-> {},
       orders |-> {Order3},
       order_details |-> {[order_id |-> 3, line |-> 1, product_id |-> "x",
                           quantity |-> 2, price_per_unit |-> 2]},
       nextId |-> 4, clock |-> 2],
      [carts |-> {Cart1, [cart_id |-> 4, user_id |-> Admin]}, cart_items |-> {},
       orders |-> {Order3, Order6},
       order_details |-> {[order_id |-> 3, line |-> 1, product_id |-> "x",
                           quantity |-> 2, price_per_unit |-> 2],
                          [order_id |-> 6, line |-> 1, product_id |-> "y",
                           quantity |-> 1, price_per_unit |-> 3]},
       nextId |-> 7, clock |-> 3] }

InitWith(n) ==
    /\ \E d \in Databases :
           /\ carts = d.carts
           /\ cart_items = d.cart_items
           /\ orders = d.orders
           /\ order_details = d.order_details
           /\ nextId = d.nextId
           /\ clock = d.clock
    /\ products = [x \in Products |-> [price |-> IF x = "x" THEN 2 ELSE 3,
                                       stock_quantity |-> 1]]
    /\ pc = [p \in Procs |-> "idle"]
    /\ req = [p \in Procs |-> NoReq]
    /\ loc = [p \in Procs |-> NoLoc]
    /\ tx = [p \in Procs |-> NoTx]
    /\ resp = [p \in Procs |-> "none"]
    /\ budget = n
    /\ failures = 0
    /\ cleared = [u \in Users |-> FALSE]

Init == InitWith(MaxRequests)

InitSeq == InitWith(MaxSeqRequests)

(***************************************************************************)
(* Request dispatch: an idle worker takes the next request.                *)
(***************************************************************************)
Begin(p, r, at, rsp) ==
    /\ pc[p] = "idle"
    /\ budget > 0
    /\ budget' = budget - 1
    /\ req' = [req EXCEPT ![p] = r]
    /\ pc' = [pc EXCEPT ![p] = at]
    /\ loc' = [loc EXCEPT ![p] = NoLoc]
    /\ resp' = [resp EXCEPT ![p] = rsp]

\* The handler returns its response.
Respond(p, r) ==
    /\ pc' = [pc EXCEPT ![p] = "done"]
    /\ resp' = [resp EXCEPT ![p] = r]

\* The model function returns Err(e), a sqlx::Error, to its handler.
Returns(p, e) == loc' = [loc EXCEPT ![p].err = e]

\* The routes behind the bearer middleware that the model covers.
RequestKinds == {"get_cart", "add_cart_item", "get_all_user_orders", "create_order",
                 "get_all_orders", "update_order_status", "update_product_by_id"}

\* A request without a resolved identity (req_user is None): every handler
\* answers 401 before it calls a model function.
StartUnauthenticated(p) ==
    \E k \in RequestKinds :
        /\ Begin(p, [NoReq EXCEPT !.kind = k], "done", "Unauthorized")
        /\ UNCHANGED <<clock, tables, nextId, tx, failures, cleared>>

\* POST api/cart-items with a resolved identity and a quantity of Qs
StartAddItemFrom(p, Qs) ==
    \E u \in Users, x \in Products, q \in Qs :
        /\ Begin(p, [NoReq EXCEPT !.kind = "add_cart_item", !.user = u,
                                  !.product = x, !.quantity = q], "goc_select", "none")
        /\ cleared' = [cleared EXCEPT ![u] = FALSE]
        /\ UNCHANGED <<clock, tables, nextId, tx, failures>>

\* POST api/cart-items with a resolved identity
StartAddItem(p) == StartAddItemFrom(p, Quantities)

\* GET api/carts with a resolved identity
StartGetCart(p) ==
    \E u \in Users :
        /\ Begin(p, [NoReq EXCEPT !.kind = "get_cart", !.user = u], "goc_select", "none")
        /\ UNCHANGED <<clock, tables, nextId, tx, failures, cleared>>

\* POST api/orders with a resolved identity; pool.begin() opens the
\* transaction, whose start time is the value of NOW() in its statements
StartCheckout(p) ==
    \E u \in Users, a \in Addresses :
        /\ Begin(p, [NoReq EXCEPT !.kind = "create_order", !.user = u,
                                  !.address = a], "co_cart", "none")
        /\ tx' = [tx EXCEPT ![p] = [NoTx EXCEPT !.active = TRUE, !.started = clock]]
        /\ clock' = clock + 1
        /\ UNCHANGED <<tables, nextId, failures, cleared>>

(***************************************************************************)
(* Cart::get_or_create_cart                                                *)
(***************************************************************************)
\* The lookup left out: every call goes on to insert a cart.
GocSelect_AlwaysInsert(p) ==
    /\ pc[p] = "goc_select"
    /\ pc' = [pc EXCEPT ![p] = "goc_insert"]
    /\ UNCHANGED <<clock, tables, nextId, req, loc, tx, resp, budget, failures, cleared>>

\* SELECT * FROM carts WHERE user_id = $1 LIMIT 1: with no ORDER BY the row
\* returned is any one of the matching rows.
GocSelect(p) ==
    /\ pc[p] = "goc_select"
    /\ \/ /\ CartsOf(req[p].user) = {}
          /\ pc' = [pc EXCEPT ![p] = "goc_insert"]
          /\ UNCHANGED loc
       \/ \E c \in CartsOf(req[p].user) :
              /\ loc' = [loc EXCEPT ![p].cart = c.cart_id]
              /\ pc' = [pc EXCEPT ![p] =
                           IF req[p].kind = "get_cart" THEN "list" ELSE "aci_select"]
    /\ UNCHANGED <<clock, tables, nextId, req, tx, resp, budget, failures, cleared>>

\* The insert skipped when the user has a cart by now, which is returned.
GocInsert_IfAbsent(p) ==
    /\ pc[p] = "goc_insert"
    /\ \/ /\ CartsOf(req[p].user) = {}
          /\ carts' = carts \cup {[cart_id |-> nextId, user_id |-> req[p].user]}
          /\ nextId' = nextId + 1
          /\ loc' = [loc EXCEPT ![p].cart = nextId]
       \/ \E c \in CartsOf(req[p].user) :
              /\ loc' = [loc EXCEPT ![p].cart = c.cart_id]
              /\ UNCHANGED <<carts, nextId>>
    /\ pc' = [pc EXCEPT ![p] =
                 IF req[p].kind = "get_cart" THEN "list" ELSE "aci_select"]
    /\ UNCHANGED <<clock, cart_items, products, orders, order_details,
                   req, tx, resp, budget, failures, cleared>>

\* INSERT INTO carts (user_id) VALUES ($1) RETURNING *
GocInsert(p) ==
    /\ pc[p] = "goc_insert"
    /\ carts' = carts \cup {[cart_id |-> nextId, user_id |-> req[p].user]}
    /\ nextId' = nextId + 1
    /\ loc' = [loc EXCEPT ![p].cart = nextId]
    /\ pc' = [pc EXCEPT ![p] =
                 IF req[p].kind = "get_cart" THEN "list" ELSE "aci_select"]
    /\ UNCHANGED <<clock, cart_items, products, orders, order_details,
                   req, tx, resp, budget, failures, cleared>>

(***************************************************************************)
(* Cart::add_cart_item                                                     *)
(***************************************************************************)
\* SELECT * FROM cart_items WHERE cart_id = $1 AND product_id = $2
MatchingItems(cid, x) == {i \in ItemsOf(cid) : i.product_id = x}

AciSelect(p) ==
    /\ pc[p] = "aci_select"
    /\ \/ /\ MatchingItems(loc[p].cart, req[p].product) = {}
          /\ pc' = [pc EXCEPT ![p] = "aci_insert"]
          /\ UNCHANGED loc
       \/ \E i \in MatchingItems(loc[p].cart, req[p].product) :
              /\ loc' = [loc EXCEPT ![p].item = i]
              /\ pc' = [pc EXCEPT ![p] = "aci_update"]
    /\ UNCHANGED <<clock, tables, nextId, req, tx, resp, budget, failures, cleared>>

\* The stored quantity overwritten instead of incremented.
NewQuantity_Overwrite(old, q) == q

\* cart_item.quantity.unwrap_or(0) + quantity, where the build wraps an
\* overflowing sum
NewQuantity(old, q) == WrappingAdd(old, q)

\* The increment done by the statement itself, on the quantity stored when
\* it runs: UPDATE cart_items SET quantity = quantity + $1 ...
AciUpdate_Atomic(p) ==
    /\ pc[p] = "aci_update"
    /\ loc[p].item.cart_item_id \notin LockedByOthers(p)
    /\ \/ \E i \in cart_items :
              /\ i.cart_item_id = loc[p].item.cart_item_id
              /\ cart_items' = (cart_items \ {i}) \cup
                     {[i EXCEPT !.quantity = WrappingAdd(i.quantity, req[p].quantity)]}
              /\ pc' = [pc EXCEPT ![p] = "list"]
              /\ UNCHANGED <<resp, loc>>
       \/ /\ \A i \in cart_items : i.cart_item_id # loc[p].item.cart_item_id
          /\ Returns(p, "RowNotFound")
          /\ Respond(p, "InternalServerError")
          /\ UNCHANGED cart_items
    /\ UNCHANGED <<clock, carts, products, orders, order_details, nextId,
                   req, tx, budget, failures, cleared>>

\* UPDATE cart_items SET quantity = $1 WHERE cart_item_id = $2 RETURNING *
\* The statement waits for a transaction holding the row locked; fetch_one
\* fails with RowNotFound when the row is gone.  An overflowing sum wraps
\* in a build without overflow checks and panics in a build with them: the
\* panic ends the handler before the statement is sent.
AciUpdate(p) ==
    /\ pc[p] = "aci_update"
    /\ loc[p].item.cart_item_id \notin LockedByOthers(p)
    /\ \/ /\ AddOverflows(loc[p].item.quantity, req[p].quantity)
          /\ Respond(p, "Panic")
          /\ UNCHANGED <<cart_items, loc>>
       \/ \E i \in cart_items :
              /\ i.cart_item_id = loc[p].item.cart_item_id
              /\ cart_items' = (cart_items \ {i}) \cup
                     {[i EXCEPT !.quantity =
                          NewQuantity(loc[p].item.quantity, req[p].quantity)]}
              /\ pc' = [pc EXCEPT ![p] = "list"]
              /\ UNCHANGED <<resp, loc>>
       \/ /\ \A i \in cart_items : i.cart_item_id # loc[p].item.cart_item_id
          /\ Returns(p, "RowNotFound")
          /\ Respond(p, "InternalServerError")
          /\ UNCHANGED cart_items
    /\ UNCHANGED <<clock, carts, products, orders, order_details, nextId,
                   req, tx, budget, failures, cleared>>

\* The storage schema's verdict on a new cart_items row.
RejectsCartItem(row) == FALSE

\* INSERT INTO cart_items (cart_id, product_id, quantity) VALUES ($1, $2, $3) RETURNING *
AciInsert(p) ==
    /\ pc[p] = "aci_insert"
    /\ LET row == [cart_item_id |-> nextId, cart_id |-> loc[p].cart,
                   product_id |-> req[p].product, quantity |-> req[p].quantity]
       IN  \/ /\ ~RejectsCartItem(row)
              /\ cart_items' = cart_items \cup {row}
              /\ nextId' = nextId + 1
              /\ pc' = [pc EXCEPT ![p] = "list"]
              /\ UNCHANGED resp
           \/ /\ RejectsCartItem(row)
              /\ Respond(p, "InternalServerError")
              /\ UNCHANGED <<cart_items, nextId>>
    /\ UNCHANGED <<clock, carts, products, orders, order_details,
                   req, loc, tx, budget, failures, cleared>>

\* Cart::get_cart_with_items, then the handler's response
ListItems(p) ==
    /\ pc[p] = "list"
    /\ Respond(p, IF req[p].kind = "get_cart" THEN "Ok" ELSE "Created")
    /\ UNCHANGED <<clock, tables, nextId, req, loc, tx, budget, failures, cleared>>


(***************************************************************************)
(* Order::create_order, inside the transaction opened by pool.begin()      *)
(***************************************************************************)
\* Dropping the transaction handle on an early return rolls it back.
Rollback(p) == tx' = [tx EXCEPT ![p] = NoTx]

\* The checkout resolving its cart as the cart requests do: a missing cart
\* row is inserted and the checkout goes on.
CoCart_GetOrCreate(p) ==
    /\ pc[p] = "co_cart"
    /\ \/ /\ CartsOf(req[p].user) = {}
          /\ carts' = carts \cup {[cart_id |-> nextId, user_id |-> req[p].user]}
          /\ nextId' = nextId + 1
          /\ loc' = [loc EXCEPT ![p].cart = nextId]
       \/ \E c \in CartsOf(req[p].user) :
              /\ loc' = [loc EXCEPT ![p].cart = c.cart_id]
              /\ UNCHANGED <<carts, nextId>>
    /\ pc' = [pc EXCEPT ![p] = "co_items"]
    /\ UNCHANGED <<clock, cart_items, products, orders, order_details,
                   req, tx, resp, budget, failures, cleared>>

\* SELECT * FROM carts WHERE user_id = $1 (fetch_optional: one of the rows);
\* cart.ok_or(RowNotFound)?, which the handler answers with 404 "Cart not found"
CoCart(p) ==
    /\ pc[p] = "co_cart"
    /\ \/ /\ CartsOf(req[p].user) = {}
          /\ Returns(p, "RowNotFound")
          /\ Respond(p, "NotFound")
          /\ Rollback(p)
       \/ \E c \in CartsOf(req[p].user) :
              /\ loc' = [loc EXCEPT ![p].cart = c.cart_id]
              /\ pc' = [pc EXCEPT ![p] = "co_items"]
              /\ UNCHANGED <<tx, resp>>
    /\ UNCHANGED <<clock, tables, nextId, req, budget, failures, cleared>>

\* The empty-cart check left out.
IsEmptyCart_Never(items) == FALSE

\* The check with rows of quantity zero left out of the count.
IsEmptyCart_IgnoresZero(items) == \A i \in items : i.quantity = 0

\* cart_items.is_empty()
IsEmptyCart(items) == items = {}

\* The joined read of the cart, the empty-cart check (400 "Cart is empty") and
\* the total.
CoItems(p) ==
    /\ pc[p] = "co_items"
    /\ LET items == JoinedItems(loc[p].cart)
       IN  \/ /\ IsEmptyCart(items)
              /\ loc' = [loc EXCEPT ![p].items = items, ![p].err = "Protocol"]
              /\ Respond(p, "BadRequest")
              /\ Rollback(p)
           \/ /\ ~IsEmptyCart(items)
              /\ loc' = [loc EXCEPT ![p].items = items,
                                    ![p].total = TotalAmount(items)]
              /\ pc' = [pc EXCEPT ![p] = "co_order"]
              /\ UNCHANGED <<tx, resp>>
    /\ UNCHANGED <<clock, tables, nextId, req, budget, failures, cleared>>

\* The insert issued on the pool instead of the transaction handle.
TxInsertOrder_Autocommit(p, o) ==
    /\ orders' = orders \cup {o}
    /\ UNCHANGED tx

\* A statement on the transaction handle inserts an orders row.
TxInsertOrder(p, o) ==
    /\ tx' = [tx EXCEPT ![p].orders = @ \cup {o}]
    /\ UNCHANGED orders

\* The default of the column orders.created_at in a statement of p's
\* transaction: the transaction's start time.
CreatedAtDefault(p) == tx[p].started

\* INSERT INTO orders (user_id, total_amount, status, shipping_address, order_date)
\* VALUES ($1, $2, 'pending', $4, NOW()) RETURNING ...; created_at is left
\* to the column's default, the time of the insert as NOW() gives it.
CoOrder(p) ==
    /\ pc[p] = "co_order"
    /\ LET o == [order_id |-> nextId, user_id |-> req[p].user, status |-> "pending",
                 shipping_address |-> req[p].address, total_amount |-> loc[p].total,
                 created_at |-> CreatedAtDefault(p)]
       IN  /\ TxInsertOrder(p, o)
           /\ loc' = [loc EXCEPT ![p].order = o, ![p].todo = loc[p].items]
    /\ nextId' = nextId + 1
    /\ pc' = [pc EXCEPT ![p] = "co_details"]
    /\ UNCHANGED <<clock, carts, cart_items, products, order_details,
                   req, resp, budget, failures, cleared>>

\* The line total stored as the unit price.
DetailRow_LineTotal(o, item, n) ==
    [order_id |-> o.order_id, line |-> n, product_id |-> item.product_id,
     quantity |-> item.quantity, price_per_unit |-> item.price * item.quantity]

\* The order_details row of one cart item read by the checkout.
DetailRow(o, item, n) ==
    [order_id |-> o.order_id, line |-> n, product_id |-> item.product_id,
     quantity |-> item.quantity, price_per_unit |-> item.price]

\* for item in cart_items { INSERT INTO order_details ... }: one statement per
\* item, in the order the rows were fetched (here by row id).
CoDetail(p) ==
    /\ pc[p] = "co_details"
    /\ LET item == CHOOSE i \in loc[p].todo :
                       \A j \in loc[p].todo : i.cart_item_id <= j.cart_item_id
           n == Cardinality(loc[p].items) - Cardinality(loc[p].todo) + 1
       IN  /\ tx' = [tx EXCEPT ![p].details = @ \cup {DetailRow(loc[p].order, item, n)}]
           /\ loc' = [loc EXCEPT ![p].todo = @ \ {item}]
           /\ pc' = [pc EXCEPT ![p] =
                        IF loc[p].todo = {item} THEN "co_delete" ELSE "co_details"]
    /\ UNCHANGED <<clock, tables, nextId, req, resp, budget, failures, cleared>>

\* The DELETE without its WHERE clause: the rows of every cart.
CoDelete_EveryCart(p) ==
    /\ pc[p] = "co_delete"
    /\ {i.cart_item_id : i \in cart_items} \cap LockedByOthers(p) = {}
    /\ tx' = [tx EXCEPT ![p].deleted = cart_items]
    /\ pc' = [pc EXCEPT ![p] = "co_commit"]
    /\ UNCHANGED <<clock, tables, nextId, req, loc, resp, budget, failures, cleared>>

\* DELETE FROM cart_items WHERE cart_id = $1: the rows committed when the
\* statement runs; it waits for rows another transaction holds locked.
CoDelete(p) ==
    /\ pc[p] = "co_delete"
    /\ {i.cart_item_id : i \in ItemsOf(loc[p].cart)} \cap LockedByOthers(p) = {}
    /\ tx' = [tx EXCEPT ![p].deleted = ItemsOf(loc[p].cart)]
    /\ pc' = [pc EXCEPT ![p] = "co_commit"]
    /\ UNCHANGED <<clock, tables, nextId, req, loc, resp, budget, failures, cleared>>

\* tx.commit(), then 201 with the order
CoCommit(p) ==
    /\ pc[p] = "co_commit"
    /\ orders' = orders \cup tx[p].orders
    /\ order_details' = order_details \cup tx[p].details
    /\ cart_items' = cart_items \ tx[p].deleted
    /\ tx' = [tx EXCEPT ![p].active = FALSE]
    /\ Respond(p, "Created")
    /\ cleared' = [cleared EXCEPT ![req[p].user] =
                      \A q \in Procs : ~(req[q].kind = "add_cart_item" /\
                                          req[q].user = req[p].user /\ pc[q] # "done")]
    /\ UNCHANGED <<clock, carts, products, nextId, req, loc, budget, failures>>

(***************************************************************************)
(* Order::get_all_user_orders behind GET api/orders and                    *)
(* Order::get_all_orders behind GET api/admin/orders                       *)
(***************************************************************************)
RECURSIVE OrderByCreatedAtAsc(_)
\* The rows sorted by created_at, the earliest first.
OrderByCreatedAtAsc(S) ==
    IF S = {} THEN <<>>
    ELSE LET o == CHOOSE x \in S : \A y \in S : x.created_at <= y.created_at
         IN  <<o>> \o OrderByCreatedAtAsc(S \ {o})

RECURSIVE OrderByCreatedAtDesc(_)
\* ... ORDER BY created_at DESC
OrderByCreatedAtDesc(S) ==
    IF S = {} THEN <<>>
    ELSE LET o == CHOOSE x \in S : \A y \in S : x.created_at >= y.created_at
         IN  <<o>> \o OrderByCreatedAtDesc(S \ {o})

\* GET api/orders with a resolved identity
StartGetUserOrders(p) ==
    \E u \in Users :
        /\ Begin(p, [NoReq EXCEPT !.kind = "get_all_user_orders", !.user = u],
                 "gauo_select", "none")
        /\ UNCHANGED <<clock, tables, nextId, tx, failures, cleared>>

\* SELECT ... FROM orders WHERE user_id = $1 ORDER BY created_at DESC
GauoSelect(p) ==
    /\ pc[p] = "gauo_select"
    /\ loc' = [loc EXCEPT ![p].result =
                  OrderByCreatedAtDesc({o \in orders : o.user_id = req[p].user})]
    /\ Respond(p, "Ok")
    /\ UNCHANGED <<clock, tables, nextId, req, tx, budget, failures, cleared>>

\* GET api/admin/orders with a resolved identity: the role check first
StartGetAllOrders(p) ==
    \E u \in Users :
        /\ Begin(p, [NoReq EXCEPT !.kind = "get_all_orders", !.user = u],
                 IF IsAdmin(u) THEN "gao_select" ELSE "done",
                 IF IsAdmin(u) THEN "none" ELSE "Unauthorized")
        /\ UNCHANGED <<clock, tables, nextId, tx, failures, cleared>>

\* SELECT ... FROM orders ORDER BY created_at DESC
GaoSelect(p) ==
    /\ pc[p] = "gao_select"
    /\ loc' = [loc EXCEPT ![p].result = OrderByCreatedAtDesc(orders)]
    /\ Respond(p, "Ok")
    /\ UNCHANGED <<clock, tables, nextId, req, tx, budget, failures, cleared>>

(***************************************************************************)
(* Order::update_order_status behind PUT api/admin/order                   *)
(***************************************************************************)
\* An order id of the request body: an existing order's, or one of no order.
OrderIds == {o.order_id : o \in orders} \cup {0}

StartUpdateStatus(p) ==
    \E u \in Users, id \in OrderIds, s \in StatusInputs :
        /\ Begin(p, [NoReq EXCEPT !.kind = "update_order_status", !.user = u,
                                  !.order_id = id, !.status = s],
                 IF IsAdmin(u) THEN "uos_select" ELSE "done",
                 IF IsAdmin(u) THEN "none" ELSE "Unauthorized")
        /\ UNCHANGED <<clock, tables, nextId, tx, failures, cleared>>

\* The existence check passed for every id.
OrderExists_Always(id) == TRUE

\* SELECT order_id FROM orders WHERE order_id = $1 ... order.is_none()
OrderExists(id) == \E o \in orders : o.order_id = id

\* The existence check: Err(RowNotFound) when there is no such order, which
\* the handler answers with 500
UosSelect(p) ==
    /\ pc[p] = "uos_select"
    /\ \/ /\ ~OrderExists(req[p].order_id)
          /\ Returns(p, "RowNotFound")
          /\ Respond(p, "InternalServerError")
       \/ /\ OrderExists(req[p].order_id)
          /\ pc' = [pc EXCEPT ![p] = "uos_update"]
          /\ UNCHANGED <<resp, loc>>
    /\ UNCHANGED <<clock, tables, nextId, req, tx, budget, failures, cleared>>

\* UPDATE orders SET status = $1 WHERE order_id = $2
UosUpdate(p) ==
    /\ pc[p] = "uos_update"
    /\ orders' = {IF o.order_id = req[p].order_id
                  THEN [o EXCEPT !.status = ParseStatus(req[p].status)]
                  ELSE o : o \in orders}
    /\ Respond(p, "Ok")
    /\ UNCHANGED <<clock, carts, cart_items, products, order_details, nextId,
                   req, loc, tx, budget, failures, cleared>>

(***************************************************************************)
(* Product::edit_product_by_id behind PUT api/product/{id}                 *)
(***************************************************************************)
Stocks == {1, 2}

StartEditProduct(p) ==
    \E u \in Users, x \in Products, pr \in Prices, st \in Stocks :
        /\ Begin(p, [NoReq EXCEPT !.kind = "update_product_by_id", !.user = u,
                                  !.product = x, !.price = pr, !.stock = st],
                 IF IsAdmin(u) THEN "ep_update" ELSE "done",
                 IF IsAdmin(u) THEN "none" ELSE "Forbidden")
        /\ UNCHANGED <<clock, tables, nextId, tx, failures, cleared>>

\* Order lines that follow the catalog price.
DetailsAfterEdit_Live(x, pr) ==
    {IF d.product_id = x THEN [d EXCEPT !.price_per_unit = pr] ELSE d :
        d \in order_details}

\* The order_details rows after a catalog edit.
DetailsAfterEdit(x, pr) == order_details

\* UPDATE products SET name = $1, description = $2, price = $3,
\* stock_quantity = $4 WHERE product_id = $5 RETURNING *
EpUpdate(p) ==
    /\ pc[p] = "ep_update"
    /\ products' = [products EXCEPT ![req[p].product] =
                       [price |-> req[p].price, stock_quantity |-> req[p].stock]]
    /\ order_details' = DetailsAfterEdit(req[p].product, req[p].price)
    /\ Respond(p, "Ok")
    /\ UNCHANGED <<clock, carts, cart_items, orders, nextId,
                   req, loc, tx, budget, failures, cleared>>

(***************************************************************************)
(* Storage errors and the end of a request                                 *)
(***************************************************************************)
Statements == {"goc_select", "goc_insert", "aci_select", "aci_update", "aci_insert",
               "list", "co_cart", "co_items", "co_order", "co_details", "co_delete",
               "co_commit", "gauo_select", "gao_select", "uos_select", "uos_update",
               "ep_update"}

\* The statement p is about to run fails (`.await?`): the error is returned,
\* an open transaction is dropped, and the handler answers 500.
StorageFailure(p) ==
    /\ pc[p] \in Statements
    /\ failures < MaxFailures
    /\ failures' = failures + 1
    /\ Returns(p, "Database")
    /\ Respond(p, "InternalServerError")
    /\ Rollback(p)
    /\ UNCHANGED <<clock, tables, nextId, req, budget, cleared>>

\* The worker is free for the next request.
Recycle(p) ==
    /\ pc[p] = "done"
    /\ pc' = [pc EXCEPT ![p] = "idle"]
    /\ req' = [req EXCEPT ![p] = NoReq]
    /\ loc' = [loc EXCEPT ![p] = NoLoc]
    /\ tx' = [tx EXCEPT ![p] = NoTx]
    /\ resp' = [resp EXCEPT ![p] = "none"]
    /\ UNCHANGED <<clock, tables, nextId, budget, failures, cleared>>

Next ==
    \E p \in Procs :
        \/ StartUnauthenticated(p)
        \/ StartAddItem(p)
        \/ StartGetCart(p)
        \/ StartCheckout(p)
        \/ StartGetUserOrders(p)
        \/ StartGetAllOrders(p)
        \/ StartUpdateStatus(p)
        \/ StartEditProduct(p)
        \/ GocSelect(p)
        \/ GocInsert(p)
        \/ AciSelect(p)
        \/ AciUpdate(p)
        \/ AciInsert(p)
        \/ ListItems(p)
        \/ CoCart(p)
        \/ CoItems(p)
        \/ CoOrder(p)
        \/ CoDetail(p)
        \/ CoDelete(p)
        \/ CoCommit(p)
        \/ GauoSelect(p)
        \/ GaoSelect(p)
        \/ UosSelect(p)
        \/ UosUpdate(p)
        \/ EpUpdate(p)
        \/ StorageFailure(p)
        \/ Recycle(p)

Spec == Init /\ [][Next]_vars

\* Requests handled one at a time: a request starts when no other is in flight.
InFlight == {p \in Procs : pc[p] # "idle"}

\* Which worker takes a request is immaterial when they never overlap: the
\* first worker takes them all.
NextSeq == Next /\ Cardinality(InFlight') <= 1 /\ InFlight' \subseteq {1}

SpecSeq == InitSeq /\ [][NextSeq]_vars

\* The add_cart_item requests with every kind of quantity the request
\* body's i32 field carries: negative, zero, positive and the largest.
NextQty ==
    \E p \in Procs :
        \/ StartAddItemFrom(p, AnyQuantities)
        \/ GocSelect(p)
        \/ GocInsert(p)
        \/ AciSelect(p)
        \/ AciUpdate(p)
        \/ AciInsert(p)
        \/ ListItems(p)
        \/ Recycle(p)

SpecQty == Init /\ [][NextQty]_vars

\* The quantities of the requests that put a row of quantity zero in a cart.
ZeroQuantities == {0, 1}

\* add_cart_item with a quantity of zero or one, and the checkout, without
\* storage failures.
NextZero ==
    \E p \in Procs :
        \/ StartAddItemFrom(p, ZeroQuantities)
        \/ StartCheckout(p)
        \/ GocSelect(p)
        \/ GocInsert(p)
        \/ AciSelect(p)
        \/ AciUpdate(p)
        \/ AciInsert(p)
        \/ ListItems(p)
        \/ CoCart(p)
        \/ CoItems(p)
        \/ CoOrder(p)
        \/ CoDetail(p)
        \/ CoDelete(p)
        \/ CoCommit(p)
        \/ Recycle(p)

SpecZero == Init /\ [][NextZero]_vars


(***************************************************************************)
(* Properties                                                              *)
(***************************************************************************)
Checkout(p) == req[p].kind = "create_order"
AddItem(p) == req[p].kind = "add_cart_item"

\* p's checkout has committed and returned the order.
Ordered(p) == Checkout(p) /\ pc[p] = "done" /\ resp[p] = "Created"

\* p takes a step.
Steps(p) == pc'[p] # pc[p] \/ loc'[p] # loc[p] \/ tx'[p] # tx[p]

\* p's step is tx.commit() succeeding.
Commits(p) == pc[p] = "co_commit" /\ pc'[p] = "done" /\ resp'[p] = "Created"

ItemIds(rows) == {r.cart_item_id : r \in rows}

\* C1: two checkouts of one user against the same non-empty cart never both
\* produce an Order: no two returned Orders were made from the same cart item
\* rows.
C1_OneOrderPerCart ==
    \A p, q \in Procs :
        (p # q /\ Ordered(p) /\ Ordered(q) /\ req[p].user = req[q].user)
            => ItemIds(loc[p].items) \cap ItemIds(loc[q].items) = {}

\* C2: checkout is all-or-nothing: every step of a create_order that does not
\* end in a successful commit, a failing step and the rollback included,
\* leaves the committed tables as they were, and a checkout that ended in an
\* error holds no write that could still be applied.
C2_AllOrNothing ==
    [][\A p \in Procs :
          /\ (Checkout(p) /\ Steps(p) /\ ~Commits(p)) => UNCHANGED tables
          /\ (Checkout(p) /\ pc'[p] = "done" /\ resp'[p] # "Created")
                => tx'[p] = NoTx]_vars

\* C2 witness: a checkout failed after it had inserted its order and all its
\* order_details rows, and the order is in no table.
C2_Witness ==
    \E p \in Procs :
        /\ Checkout(p) /\ pc[p] = "done" /\ resp[p] = "InternalServerError"
        /\ loc[p].order # NoOrder /\ loc[p].todo = {}
        /\ loc[p].order \notin orders
        /\ ItemsOf(loc[p].cart) # {}

DetailsOf(o) == {d \in order_details : d.order_id = o.order_id}

\* C3: for every order in the orders table, the sum of quantity *
\* price_per_unit over its order_details rows equals its total_amount.
C3_TotalInvariant ==
    \A o \in orders :
        SumOver(DetailsOf(o),
                [d \in DetailsOf(o) |-> d.quantity * d.price_per_unit])
            = o.total_amount

\* C3 witness: an order with two lines, one of more than one unit, one of a
\* product whose catalog price has changed since.
C3_Witness ==
    \E o \in orders :
        /\ Cardinality(DetailsOf(o)) = 2
        /\ \E d \in DetailsOf(o) : d.quantity > 1
        /\ \E d \in DetailsOf(o) : products[d.product_id].price # d.price_per_unit

Line(r) == <<r.cart_item_id, r.product_id, r.quantity>>

\* C4: a successful checkout records as order_details rows exactly the cart
\* item rows it read, and deletes no cart item row that it did not record.
C4_CheckoutTakesWhatItRead ==
    \A p \in Procs :
        Ordered(p) =>
            /\ {<<d.product_id, d.quantity>> : d \in tx[p].details}
                   = {<<i.product_id, i.quantity>> : i \in loc[p].items}
            /\ {Line(r) : r \in tx[p].deleted} = {Line(i) : i \in loc[p].items}

\* C5: a checkout that reads a cart with no cart item rows answers 400 "Cart
\* is empty" unless the read itself fails, writes nothing and rolls back.
C5_EmptyCartRejected ==
    [][\A p \in Procs :
          (pc[p] = "co_items" /\ pc'[p] # "co_items" /\ failures' = failures
             /\ ItemsOf(loc[p].cart) = {})
          => /\ pc'[p] = "done" /\ resp'[p] = "BadRequest"
             /\ tx'[p] = NoTx
             /\ UNCHANGED <<orders, order_details>>]_vars

\* C5 witness: a checkout resolved a cart, found it empty and answered 400.
C5_Witness ==
    \E p \in Procs :
        /\ Checkout(p) /\ pc[p] = "done" /\ resp[p] = "BadRequest"
        /\ loc[p].cart # NoCart /\ loc[p].items = {}

\* C6: a successful checkout leaves its cart with no cart item row, and the
\* next checkout of the same user, with no add_cart_item of that user in
\* between, answers 400 "Cart is empty" unless a statement fails.
C6_SecondCheckoutEmpty ==
    [][\A p \in Procs :
          /\ Commits(p) => {i \in cart_items' : i.cart_id = loc[p].cart} = {}
          /\ (Checkout(p) /\ pc[p] = "co_items" /\ pc'[p] # "co_items"
                /\ failures' = failures /\ cleared[req[p].user])
             => resp'[p] = "BadRequest"]_vars

OrderTotals(os) == {<<o.order_id, o.total_amount>> : o \in os}

\* C7: no step changes or removes an existing order_details row or changes an
\* existing order's total_amount, a catalog price edit included, and only a
\* checkout's commit adds order_details rows or order totals.
C7_PriceSnapshot ==
    [][/\ order_details \subseteq order_details'
       /\ OrderTotals(orders) \subseteq OrderTotals(orders')
       /\ (order_details' # order_details \/ OrderTotals(orders') # OrderTotals(orders))
             => \E p \in Procs : Commits(p)]_vars

\* C7 witness: an order line whose price_per_unit differs from the product's
\* catalog price, after an edit of the catalog price went through.
C7_Witness ==
    /\ \E d \in order_details : products[d.product_id].price # d.price_per_unit
    /\ \E p \in Procs : req[p].kind = "update_product_by_id" /\ resp[p] = "Ok"

\* C8: every order in the orders table has at least one order_details row,
\* and the writes of a checkout in progress are in no table: its order and
\* lines are not inserted and the cart item rows it deleted are all present.
C8_NoPartialCheckout ==
    /\ \A o \in orders : DetailsOf(o) # {}
    /\ \A p \in Procs :
          tx[p].active =>
              /\ tx[p].orders \cap orders = {}
              /\ tx[p].details \cap order_details = {}
              /\ tx[p].deleted \subseteq cart_items

\* C8 witness: a checkout has inserted its order and not yet its lines while
\* another request is in flight.
C8_Witness ==
    \E p, q \in Procs :
        /\ p # q
        /\ tx[p].active /\ tx[p].orders # {} /\ tx[p].details = {}
        /\ pc[q] \notin {"idle", "done"}

\* C9: with one request at a time, a finished add_cart_item leaves exactly one
\* cart item row for its (cart_id, product_id): the row it found, with the
\* quantity it found plus the quantity added, or a new row with the quantity
\* added when it found none.
C9_SequentialMerge ==
    \A p \in Procs :
        (AddItem(p) /\ pc[p] = "done" /\ resp[p] = "Created") =>
            \E i \in cart_items :
                /\ MatchingItems(loc[p].cart, req[p].product) = {i}
                /\ IF loc[p].item = NoRow
                   THEN i.quantity = req[p].quantity
                   ELSE /\ i.cart_item_id = loc[p].item.cart_item_id
                        /\ i.quantity = loc[p].item.quantity + req[p].quantity

\* C9 witness: the second of two adds of one product to a cart that started
\* empty, quantities 1 then 2, has left one row with quantity 3.
C9_Witness ==
    \E p \in Procs, i \in cart_items :
        /\ AddItem(p) /\ pc[p] = "done" /\ resp[p] = "Created"
        /\ req[p].user = Admin /\ req[p].quantity = 2
        /\ loc[p].item.quantity = 1
        /\ MatchingItems(loc[p].cart, req[p].product) = {i}
        /\ i.quantity = 3

\* C10: there is at most one cart item row per (cart_id, product_id).
C10_UniqueCartItem ==
    \A i, j \in cart_items :
        (i.cart_id = j.cart_id /\ i.product_id = j.product_id) => i = j


(***************************************************************************)
(* C11: the quantity of every stored cart item is at least 1, whatever the *)
(* add_cart_item requests carried, and a merge of a positive quantity onto *)
(* a positive stored quantity leaves a positive quantity.                  *)
(***************************************************************************)
C11_QuantityAtLeastOne == \A i \in cart_items : i.quantity >= 1

\* C11, the merge: a positive quantity added onto a positive stored quantity
\* leaves a positive quantity, also when the sum exceeds the i32 range.
C11_MergeStaysPositive ==
    [][\A p \in Procs :
          (/\ pc[p] = "aci_update" /\ pc'[p] = "list"
           /\ loc[p].item.quantity >= 1 /\ req[p].quantity >= 1)
          => \A i \in cart_items' :
                 i.cart_item_id = loc[p].item.cart_item_id => i.quantity >= 1]_vars


\* The place of a status in the lifecycle Pending, Confirmed, Shipped.
StatusRank(s) ==
    CASE s = "pending" -> 1
      [] s = "confirmed" -> 2
      [] s = "shipped" -> 3

(***************************************************************************)
(* C12: over any sequence of update_order_status calls the status of an    *)
(* order only moves forward along Pending, Confirmed, Shipped: no step     *)
(* takes an order to an earlier status.                                    *)
(***************************************************************************)
C12_StatusOnlyForward ==
    [][\A o \in orders : \A n \in orders' :
          n.order_id = o.order_id => StatusRank(n.status) >= StatusRank(o.status)]_vars


(***************************************************************************)
(* C13: a checkout whose cart lookup finds no cart row of the user fails   *)
(* with RowNotFound, answered 404 "Cart not found": the step inserts no    *)
(* cart row, leaves carts, cart_items, orders and order_details as they    *)
(* were, and drops the transaction with nothing written.                   *)
(***************************************************************************)
C13_NoCartNoCheckout ==
    [][\A p \in Procs :
          (/\ pc[p] = "co_cart" /\ pc'[p] # "co_cart"
           /\ CartsOf(req[p].user) = {}
           /\ failures' = failures)
          => /\ pc'[p] = "done"
             /\ loc'[p].err = "RowNotFound"
             /\ resp'[p] = "NotFound"
             /\ tx'[p] = NoTx
             /\ carts' = carts
             /\ cart_items' = cart_items
             /\ orders' = orders
             /\ order_details' = order_details]_vars

C13_Witness ==
    \E p \in Procs :
        /\ Checkout(p) /\ pc[p] = "done"
        /\ loc[p].err = "RowNotFound" /\ resp[p] = "NotFound"
        /\ CartsOf(req[p].user) = {}


\* Worker p handles an update_order_status request.
UpdateStatus(p) == req[p].kind = "update_order_status"

(***************************************************************************)
(* C14: update_order_status for an order id that does not exist returns    *)
(* RowNotFound and changes no table; for an existing id its UPDATE changes  *)
(* the status of that one order and nothing else: every other field of the  *)
(* order, every other order and every other table stay as they were.        *)
(***************************************************************************)
C14_UpdateStatusFrame ==
    [][\A p \in Procs :
          /\ (/\ pc[p] = "uos_select" /\ pc'[p] # "uos_select"
              /\ ~\E o \in orders : o.order_id = req[p].order_id
              /\ failures' = failures)
             => /\ pc'[p] = "done"
                /\ loc'[p].err = "RowNotFound"
                /\ resp'[p] # "Ok"
                /\ UNCHANGED tables
          /\ (/\ pc[p] = "uos_update" /\ pc'[p] # "uos_update"
              /\ failures' = failures)
             => /\ \E o \in orders, s \in {"pending", "confirmed", "shipped"} :
                       /\ o.order_id = req[p].order_id
                       /\ orders' = (orders \ {o}) \cup {[o EXCEPT !.status = s]}
                /\ loc'[p].err = ""
                /\ resp'[p] = "Ok"
                /\ UNCHANGED <<carts, cart_items, products, order_details>>]_vars

C14_Witness ==
    \E p, q \in Procs :
        /\ UpdateStatus(p) /\ pc[p] = "done" /\ loc[p].err = "RowNotFound"
        /\ req[p].order_id \notin {o.order_id : o \in orders}
        /\ UpdateStatus(q) /\ pc[q] = "done" /\ resp[q] = "Ok"
        /\ \E o \in orders : o.order_id = req[q].order_id /\ o.status = "shipped"


(***************************************************************************)
(* C15: update_order_status on an existing order takes each of the names   *)
(* "Pending", "Confirmed" and "Shipped", whatever the order's status was,   *)
(* and leaves the order in that status; any other input, the lower-case    *)
(* "shipped" included, leaves the order pending.                           *)
(***************************************************************************)
C15_StatusAsParsed ==
    \A p \in Procs :
        (UpdateStatus(p) /\ pc[p] = "done" /\ resp[p] = "Ok")
        => \E o \in orders :
               /\ o.order_id = req[p].order_id
               /\ o.status = IF req[p].status = "Pending" THEN "pending"
                             ELSE IF req[p].status = "Confirmed" THEN "confirmed"
                             ELSE IF req[p].status = "Shipped" THEN "shipped"
                             ELSE "pending"

\* The second request of the behaviour carried an unrecognized name and the
\* order is pending.
C15_Witness ==
    \E p \in Procs :
        /\ UpdateStatus(p) /\ pc[p] = "done" /\ resp[p] = "Ok"
        /\ budget = 0
        /\ req[p].status \notin {"Pending", "Confirmed", "Shipped"}
        /\ \E o \in orders : o.order_id = req[p].order_id /\ o.status = "pending"


(***************************************************************************)
(* C16: a checkout that commits adds exactly one order, pending, of the    *)
(* caller and with the shipping address of the request, and exactly one    *)
(* order_details row of that order per cart item it read, carrying the     *)
(* item's quantity and price; the items it read are the rows of its cart   *)
(* with the catalogue price of the moment of the read.                     *)
(***************************************************************************)
C16_CheckoutCreatesOrder ==
    [][\A p \in Procs :
          /\ (pc[p] = "co_items" /\ pc'[p] = "co_order")
             => /\ \A r \in cart_items :
                       r.cart_id = loc[p].cart
                       => \E i \in loc'[p].items : i.cart_item_id = r.cart_item_id
                /\ \A i \in loc'[p].items : \E r \in cart_items :
                       /\ r.cart_item_id = i.cart_item_id
                       /\ r.cart_id = loc[p].cart
                       /\ i.product_id = r.product_id
                       /\ i.quantity = r.quantity
                       /\ i.price = products[r.product_id].price
          /\ Commits(p)
             => LET added == order_details' \ order_details
                IN  /\ \E o \in orders' \ orders :
                           /\ orders' = orders \cup {o}
                           /\ o.status = "pending"
                           /\ o.user_id = req[p].user
                           /\ o.shipping_address = req[p].address
                           /\ \A d \in added : d.order_id = o.order_id
                    /\ Cardinality(added) = Cardinality(loc[p].items)
                    /\ \A i \in loc[p].items :
                           Cardinality({d \in added :
                               /\ d.product_id = i.product_id
                               /\ d.quantity = i.quantity
                               /\ d.price_per_unit = i.price}) = 1]_vars

\* A committed checkout of a cart of two items, one of quantity 2, shipped to
\* the second address.
C16_Witness ==
    \E p \in Procs :
        /\ Ordered(p)
        /\ req[p].address = "other"
        /\ Cardinality(loc[p].items) = 2
        /\ \E i \in loc[p].items : i.quantity = 2
        /\ loc[p].order \in orders
        /\ Cardinality({d \in order_details : d.order_id = loc[p].order.order_id}) = 2


\* The rows of a result, as a set.
Rows(r) == {r[i] : i \in 1..Len(r)}

\* A result without repeated rows, in descending order of created_at.
Descending(r) ==
    \A i, j \in 1..Len(r) :
        i < j => (r[i] # r[j] /\ r[i].created_at >= r[j].created_at)

(***************************************************************************)
(* C19: the listing of a user's orders returns exactly the orders of that  *)
(* user stored when it runs, none of another user, in descending order of  *)
(* created_at; the admin listing returns every stored order in the same    *)
(* ordering.  Neither changes a table.                                     *)
(***************************************************************************)
C19_Listings ==
    [][\A p \in Procs :
          /\ (pc[p] = "gauo_select" /\ pc'[p] = "done" /\ failures' = failures)
             => /\ Rows(loc'[p].result) = {o \in orders : o.user_id = req[p].user}
                /\ Descending(loc'[p].result)
                /\ resp'[p] = "Ok"
                /\ UNCHANGED tables
          /\ (pc[p] = "gao_select" /\ pc'[p] = "done" /\ failures' = failures)
             => /\ Rows(loc'[p].result) = orders
                /\ Descending(loc'[p].result)
                /\ resp'[p] = "Ok"
                /\ UNCHANGED tables]_vars

\* Both users have an order: alice was listed hers alone, and the admin
\* listing holds both, the later one first.
C19_Witness ==
    \E p, q \in Procs :
        /\ req[p].kind = "get_all_user_orders" /\ req[p].user = Customer
        /\ pc[p] = "done" /\ resp[p] = "Ok"
        /\ Len(loc[p].result) = 1
        /\ \E o \in orders : o.user_id = Admin
        /\ req[q].kind = "get_all_orders"
        /\ pc[q] = "done" /\ resp[q] = "Ok"
        /\ Len(loc[q].result) = 2
        /\ loc[q].result[1].created_at > loc[q].result[2].created_at


\* Worker p holds a request that came without a resolved identity.
Unauthenticated(p) == req[p].kind # "none" /\ req[p].user \notin Users

\* The step changes the status of a stored order.
StatusChanges ==
    \E o \in orders, n \in orders' : n.order_id = o.order_id /\ n.status # o.status

(***************************************************************************)
(* C17: a request without a resolved identity is answered 401 at once: it  *)
(* runs no statement, holds no transaction and its arrival changes no      *)
(* table.  The statements of get_all_orders and update_order_status run    *)
(* only for a caller whose role is admin, a customer asking for either is  *)
(* answered 401, and every step that changes the status of an order is the *)
(* UPDATE of an admin's update_order_status request.                       *)
(***************************************************************************)
C17_IdentityAndRole ==
    [][/\ \A p \in Procs :
             /\ Unauthenticated(p)'
                => /\ pc'[p] = "done"
                   /\ resp'[p] = "Unauthorized"
                   /\ loc'[p] = NoLoc
                   /\ tx'[p] = NoTx
             /\ (Unauthenticated(p)' /\ ~Unauthenticated(p)) => UNCHANGED tables
             /\ (/\ req'[p].kind \in {"get_all_orders", "update_order_status"}
                 /\ req'[p].user # Admin)
                => /\ pc'[p] = "done"
                   /\ resp'[p] = "Unauthorized"
                   /\ loc'[p] = NoLoc
       /\ StatusChanges
             => \E p \in Procs :
                    /\ pc[p] = "uos_update" /\ pc'[p] = "done"
                    /\ req[p].kind = "update_order_status"
                    /\ req[p].user = Admin]_vars

\* A checkout without identity and a customer's update_order_status have both
\* been answered 401, and the order the customer named is still pending.
C17_Witness ==
    \E p, q \in Procs :
        /\ Unauthenticated(p) /\ req[p].kind = "create_order"
        /\ pc[p] = "done" /\ resp[p] = "Unauthorized"
        /\ req[q].kind = "update_order_status" /\ req[q].user = Customer
        /\ req[q].status = "Shipped"
        /\ pc[q] = "done" /\ resp[q] = "Unauthorized"
        /\ \E o \in orders : o.order_id = req[q].order_id /\ o.status = "pending"


\* The ids of the cart rows of user u.
CartIdsOf(u) == {c.cart_id : c \in CartsOf(u)}

\* Worker p's step runs the statement at label l and the statement succeeds.
Runs(p, l) == pc[p] = l /\ pc'[p] # l /\ failures' = failures

(***************************************************************************)
(* C18: with one request at a time, get_or_create_cart inserts a cart row  *)
(* only when the user has none and otherwise returns a row the user has    *)
(* and inserts nothing; a user with at most one cart row never gets a      *)
(* second, has exactly one after a call, and every call of theirs returns  *)
(* that one cart.                                                          *)
(***************************************************************************)
C18_OneCartSequentially ==
    [][/\ \A p \in Procs :
             LET u == req[p].user
             IN  /\ (Runs(p, "goc_select") /\ CartsOf(u) # {})
                    => /\ carts' = carts
                       /\ loc'[p].cart \in CartIdsOf(u)
                       /\ pc'[p] \in {"list", "aci_select"}
                 /\ (Runs(p, "goc_select") /\ CartsOf(u) = {})
                    => /\ carts' = carts
                       /\ pc'[p] = "goc_insert"
                 /\ Runs(p, "goc_insert")
                    => /\ CartsOf(u) = {}
                       /\ Cardinality(carts') = Cardinality(carts) + 1
                       /\ CartIdsOf(u)' = {loc'[p].cart}
                       /\ pc'[p] \in {"list", "aci_select"}
                 /\ (/\ pc[p] \in {"goc_select", "goc_insert"}
                     /\ pc'[p] \in {"list", "aci_select"}
                     /\ Cardinality(CartsOf(u)) <= 1)
                    => CartIdsOf(u)' = {loc'[p].cart}
       /\ \A u \in Users :
             Cardinality(CartsOf(u)) <= 1 => Cardinality(CartsOf(u)') <= 1]_vars

\* From the empty database: root's add_cart_item created cart 1, and root's
\* get_cart after it returned cart 1 and inserted nothing.
C18_Witness ==
    \E p \in Procs :
        /\ req[p].kind = "get_cart" /\ req[p].user = Admin
        /\ pc[p] = "done" /\ resp[p] = "Ok"
        /\ budget = 0
        /\ loc[p].cart = 1
        /\ carts = {[cart_id |-> 1, user_id |-> Admin]}
        /\ cart_items # {}

(***************************************************************************)
(* C20: get_or_create_cart does not look again before it inserts: the      *)
(* INSERT of a call that found no cart adds a cart row of the user         *)
(* whatever the table holds by then.  Two overlapping first calls of one   *)
(* user both find no cart and both insert, and the user has two cart rows. *)
(***************************************************************************)
C20_InsertWithoutRecheck ==
    [][\A p \in Procs :
          Runs(p, "goc_insert")
          => \E c \in carts' \ carts :
                 /\ carts' = carts \cup {c}
                 /\ c.user_id = req[p].user
                 /\ c.cart_id = loc'[p].cart]_vars

\* Two requests of root, who had no cart, are in flight, each with a cart of
\* its own making.
C20_Witness ==
    \E p, q \in Procs :
        /\ p # q
        /\ req[p].user = Admin /\ req[q].user = Admin
        /\ req[p].kind \in {"get_cart", "add_cart_item"}
        /\ req[q].kind \in {"get_cart", "add_cart_item"}
        /\ loc[p].cart # NoCart /\ loc[q].cart # NoCart
        /\ loc[p].cart # loc[q].cart
        /\ Cardinality(CartsOf(Admin)) = 2


(***************************************************************************)
(* C21: the UPDATE of add_cart_item writes the quantity the request read   *)
(* earlier plus the quantity it adds, whatever the row holds by then.  Two *)
(* overlapping adds of a and b that both read q leave q+a or q+b in the    *)
(* row and not q+a+b: one of the updates is lost.                          *)
(***************************************************************************)
C21_WritesWhatItRead ==
    [][\A p \in Procs :
          (Runs(p, "aci_update") /\ pc'[p] = "list")
          => \E i \in cart_items' :
                 /\ i.cart_item_id = loc[p].item.cart_item_id
                 /\ i.quantity = loc[p].item.quantity + req[p].quantity]_vars

\* Two finished adds read the same row with the same quantity q, and the row
\* holds q plus one of the added quantities only.
C21_Witness ==
    \E p, q \in Procs :
        /\ p # q
        /\ AddItem(p) /\ pc[p] = "done" /\ resp[p] = "Created"
        /\ AddItem(q) /\ pc[q] = "done" /\ resp[q] = "Created"
        /\ loc[p].item # NoRow /\ loc[p].item = loc[q].item
        /\ req[q].quantity >= 1
        /\ \E i \in cart_items :
               /\ i.cart_item_id = loc[p].item.cart_item_id
               /\ i.quantity = loc[p].item.quantity + req[p].quantity


\* The cart item rows of every cart row of user u.
ItemsOfUser(u) == UNION {ItemsOf(c.cart_id) : c \in CartsOf(u)}

(***************************************************************************)
(* C22: the checkout resolves the cart the user's adds went to.  With one  *)
(* request at a time, a checkout answered 400 "Cart is empty" leaves no    *)
(* added item of the user behind, and a checkout answered 201 has taken    *)
(* every item the user added since the last one: no cart item row of the   *)
(* user is left in any of the user's cart rows.                            *)
(***************************************************************************)
C22_SameCart ==
    \A p \in Procs :
        (Checkout(p) /\ pc[p] = "done" /\ resp[p] \in {"Created", "BadRequest"})
        => ItemsOfUser(req[p].user) = {}


(***************************************************************************)
(* C23: no step deletes a cart row, and no step of a checkout inserts one; *)
(* after a successful checkout the cart row it resolved is still there,    *)
(* and the lookup of the user's next get_or_create_cart returns that cart  *)
(* and goes on without inserting.                                          *)
(***************************************************************************)
C23_CartRowSurvives ==
    [][/\ carts \subseteq carts'
       /\ \A p \in Procs :
             /\ (Checkout(p) /\ Steps(p)) => carts' = carts
             /\ Ordered(p) => loc[p].cart \in CartIdsOf(req[p].user)
             /\ \A q \in Procs :
                   (/\ Ordered(p)
                    /\ req[q].user = req[p].user
                    /\ Runs(q, "goc_select"))
                   => /\ pc'[q] \in {"list", "aci_select"}
                      /\ loc'[q].cart = loc[p].cart]_vars

\* The frame alone: cart rows are never deleted, and a checkout inserts none.
C23_CartRowsKept ==
    [][/\ carts \subseteq carts'
       /\ \A p \in Procs : (Checkout(p) /\ Steps(p)) => carts' = carts]_vars


\* Worker p takes a step of a request of one of the kinds ks.
StepsOf(p, ks) == Steps(p) /\ (req[p].kind \in ks \/ req'[p].kind \in ks)

(***************************************************************************)
(* C24: the commit of a checkout removes cart item rows of the cart it     *)
(* resolved only, a cart of the caller, and only adds rows to orders and   *)
(* order_details; it changes no cart row and no product.  No other step of *)
(* a checkout changes a table, and no step of an add_cart_item or get_cart *)
(* request, get_or_create_cart included, changes a product, an order or an *)
(* order_details row.                                                      *)
(***************************************************************************)
C24_CheckoutFrame ==
    [][\A p \in Procs :
          /\ Commits(p)
             => /\ cart_items' \subseteq cart_items
                /\ \A i \in cart_items \ cart_items' : i.cart_id = loc[p].cart
                /\ loc[p].cart \in CartIdsOf(req[p].user)
                /\ orders \subseteq orders'
                /\ order_details \subseteq order_details'
                /\ products' = products
                /\ carts' = carts
          /\ (StepsOf(p, {"create_order"}) /\ ~Commits(p)) => UNCHANGED tables
          /\ StepsOf(p, {"add_cart_item", "get_cart"})
             => UNCHANGED <<products, orders, order_details>>]_vars

\* A checkout has committed, its cart is empty, and a cart item row of
\* another cart is still there.
C24_Witness ==
    \E p \in Procs :
        /\ Ordered(p)
        /\ loc[p].order \in orders
        /\ ItemsOf(loc[p].cart) = {}
        /\ \E i \in cart_items : i.cart_id # loc[p].cart


\* The lines of an order: product, quantity and unit price of each row.
LinesOf(o) == {<<d.product_id, d.quantity, d.price_per_unit>> : d \in DetailsOf(o)}

\* C25: a cart item row of quantity zero is not filtered at checkout: a
\* checkout answers 400 "Cart is empty" only when it read no row at all, and
\* a checkout that succeeded read at least one row and stored one
\* order_details row per row it read, with the row's quantity, zero included,
\* and a total_amount that is the sum of price * quantity over the rows.
C25_ZeroLinesOrdered ==
    \A p \in Procs :
        /\ (Checkout(p) /\ pc[p] = "done" /\ resp[p] = "BadRequest")
              => loc[p].items = {}
        /\ Ordered(p)
              => /\ loc[p].items # {}
                 /\ loc[p].order \in orders
                 /\ LinesOf(loc[p].order)
                       = {<<i.product_id, i.quantity, i.price>> : i \in loc[p].items}
                 /\ Cardinality(DetailsOf(loc[p].order)) = Cardinality(loc[p].items)
                 /\ loc[p].order.total_amount
                       = SumOver(loc[p].items,
                                 [i \in loc[p].items |-> i.price * i.quantity])

\* C25 witness: a checkout succeeded on a cart whose only row had quantity
\* zero; its order has one line of quantity zero and a total_amount of zero.
C25_Witness ==
    \E p \in Procs :
        /\ Ordered(p)
        /\ loc[p].items # {}
        /\ \A i \in loc[p].items : i.quantity = 0
        /\ loc[p].order.total_amount = 0
        /\ \E d \in DetailsOf(loc[p].order) : d.quantity = 0

\* C25, the mixed cart: an order with a line of quantity zero next to a line
\* of quantity one, the total being the price of the second.
C25_MixedWitness ==
    \E p \in Procs :
        /\ Ordered(p)
        /\ \E i, j \in loc[p].items : i.quantity = 0 /\ j.quantity = 1
        /\ loc[p].order.total_amount > 0

====
